---------------------------- MODULE Spec2Model ----------------------------
(***************************************************************************)
(* uuid7time (src/src/main.rs): extract the millisecond timestamp of a     *)
(* UUIDv7 and print it as ISO-8601, Unix seconds, Unix milliseconds or     *)
(* JSON, for every UUID given as argument or on standard input.            *)
(*                                                                         *)
(* Text is a sequence of one-character strings.  An i64 / u64 is its       *)
(* 8-byte big-endian image (a sequence of 8 numbers in 0..255): the        *)
(* timestamps of the program exceed the 32-bit integers of the model       *)
(* checker, so arithmetic on them is done limb by limb.  All i64 values    *)
(* the program computes have the sign bit clear, and the    *)
(* arithmetic operators are written for that range.                        *)
(***************************************************************************)
EXTENDS Integers, Sequences, FiniteSets, TLC

---------------------------------------------------------------------------
(* Result<T, String> *)

Ok(v) == [ok |-> TRUE, v |-> v]

Err(e) == [ok |-> FALSE, v |-> e]

---------------------------------------------------------------------------
(* Characters and strings *)

WhiteSpace == {" ", "\t"}

UpperCase == <<"A","B","C","D","E","F","G","H","I","J","K","L","M","N","O","P","Q","R","S","T","U","V","W","X","Y","Z">>

LowerCase == <<"a","b","c","d","e","f","g","h","i","j","k","l","m","n","o","p","q","r","s","t","u","v","w","x","y","z">>

HexLower == <<"0","1","2","3","4","5","6","7","8","9","a","b","c","d","e","f">>

HexUpper == <<"0","1","2","3","4","5","6","7","8","9","A","B","C","D","E","F">>

DecDigits == <<"0","1","2","3","4","5","6","7","8","9">>

Range(s) == {s[k] : k \in 1..Len(s)}

\* char::to_lowercase on the characters of the model's alphabet
CharToLower(c) ==
    IF \E k \in 1..26 : UpperCase[k] = c
    THEN LowerCase[CHOOSE k \in 1..26 : UpperCase[k] = c]
    ELSE c

\* str::to_lowercase
to_lowercase(s) == [k \in 1..Len(s) |-> CharToLower(s[k])]

\* str::trim: drop leading and trailing whitespace
RECURSIVE trim_start(_)
trim_start(s) == IF s # <<>> /\ Head(s) \in WhiteSpace THEN trim_start(Tail(s)) ELSE s

RECURSIVE trim_end(_)
trim_end(s) ==
    IF s # <<>> /\ s[Len(s)] \in WhiteSpace THEN trim_end(SubSeq(s, 1, Len(s) - 1)) ELSE s

trim(s) == trim_end(trim_start(s))

HexChars == Range(HexLower) \cup Range(HexUpper)

IsHex(c) == c \in HexChars

HexValues == [c \in HexChars |-> CHOOSE v \in 0..15 : HexLower[v + 1] = c \/ HexUpper[v + 1] = c]

HexVal(c) == HexValues[c]

---------------------------------------------------------------------------
(* Uuid::parse_str: the hyphenated (8-4-4-4-12) and the simple (32 hex     *)
(* digits) forms; anything else of the input domain is an error.  The      *)
(* result is the 16-byte value.                                            *)

HyphenPos == {9, 14, 19, 24}

HexToBytes(h) == [k \in 1..16 |-> 16 * HexVal(h[2 * k - 1]) + HexVal(h[2 * k])]

parse_str(s) ==
    IF Len(s) = 36
    THEN IF \E k \in HyphenPos : s[k] # "-"
         THEN Err(<<"invalid group">>)
         ELSE LET h == SubSeq(s, 1, 8) \o SubSeq(s, 10, 13) \o SubSeq(s, 15, 18)
                       \o SubSeq(s, 20, 23) \o SubSeq(s, 25, 36)
              IN  IF \A k \in 1..32 : IsHex(h[k])
                  THEN Ok(HexToBytes(h))
                  ELSE Err(<<"invalid character">>)
    ELSE IF Len(s) = 32
    THEN IF \A k \in 1..32 : IsHex(s[k])
         THEN Ok(HexToBytes(s))
         ELSE Err(<<"invalid character">>)
    ELSE Err(<<"invalid length">>)

---------------------------------------------------------------------------
(* 64-bit integers as 8 big-endian bytes                                   *)

\* u64::from_be_bytes followed by `as i64`: the same 8 bytes
from_be_bytes(arr) == [k \in 1..8 |-> arr[k]]

IsNeg(a) == a[1] >= 128

IsZero(a) == \A k \in 1..Len(a) : a[k] = 0

\* long division of the limbs a[k..] by a small divisor d: rem is the
\* remainder carried in, q the quotient limbs so far
RECURSIVE DivLimbs(_, _, _, _, _)
DivLimbs(a, d, k, rem, q) ==
    IF k > Len(a) THEN [q |-> q, r |-> rem]
    ELSE DivLimbs(a, d, k + 1, (rem * 256 + a[k]) % d,
                  Append(q, (rem * 256 + a[k]) \div d))

\* a / d and a % d for a non-negative a and 0 < d <= 1000
DivSmall(a, d) == DivLimbs(a, d, 1, 0, <<>>)

\* the value of an i64 known to fit in 31 bits
RECURSIVE LimbsToInt(_, _, _)
LimbsToInt(a, k, acc) ==
    IF k > Len(a) THEN acc ELSE LimbsToInt(a, k + 1, acc * 256 + a[k])

FitsInt(a) == (\A k \in 1..4 : a[k] = 0) /\ a[5] < 128

\* i64::to_string of a non-negative value: the digits, least significant first
RECURSIVE DecDigitsOf(_, _)
DecDigitsOf(a, acc) ==
    IF IsZero(a) THEN acc
    ELSE DecDigitsOf(DivSmall(a, 10).q, <<DecDigits[DivSmall(a, 10).r + 1]>> \o acc)

to_string(a) == IF IsZero(a) THEN <<"0">> ELSE DecDigitsOf(a, <<>>)

---------------------------------------------------------------------------
(* extract_timestamp_ms *)

\* faulty variant: the six bytes read least significant first
extract_timestamp_ms_LittleEndian(uuid) ==
    LET bytes == uuid
        ts_ms == from_be_bytes(<<0, 0, bytes[6], bytes[5], bytes[4],
                                 bytes[3], bytes[2], bytes[1]>>)
    IN  Ok(ts_ms)

extract_timestamp_ms(uuid) ==
    LET bytes == uuid
        ts_ms == from_be_bytes(<<0, 0, bytes[1], bytes[2], bytes[3],
                                 bytes[4], bytes[5], bytes[6]>>)
    IN  Ok(ts_ms)

---------------------------------------------------------------------------
(* chrono: Utc.timestamp_millis_opt(ts_ms).single() and to_rfc3339_opts    *)

\* days from 1970-01-01 to +262142-12-31, the last date chrono represents
MaxDays == 95026236

\* zero-padded decimal of n in w digits
RECURSIVE Pad(_, _)
Pad(n, w) == IF w = 0 THEN <<>> ELSE Pad(n \div 10, w - 1) \o <<DecDigits[(n % 10) + 1]>>

RECURSIVE IntDigits(_)
IntDigits(n) == IF n < 10 THEN <<DecDigits[n + 1]>> ELSE IntDigits(n \div 10) \o <<DecDigits[(n % 10) + 1]>>

\* the civil date of a day number (days since 1970-01-01)
CivilFromDays(days) ==
    LET z   == days + 719468
        era == z \div 146097
        doe == z - era * 146097
        yoe == (doe - doe \div 1460 + doe \div 36524 - doe \div 146096) \div 365
        doy == doe - (365 * yoe + yoe \div 4 - yoe \div 100)
        mp  == (5 * doy + 2) \div 153
        d   == doy - (153 * mp + 2) \div 5 + 1
        m   == IF mp < 10 THEN mp + 3 ELSE mp - 9
        y   == yoe + era * 400 + (IF m <= 2 THEN 1 ELSE 0)
    IN  [year |-> y, month |-> m, day |-> d]

\* DateTime<Utc> of a non-negative millisecond count, or "Timestamp out of range"
timestamp_millis_opt(ts_ms) ==
    LET secs  == DivSmall(ts_ms, 1000).q
        mins  == DivSmall(secs, 60).q
        hours == DivSmall(mins, 60).q
        days  == DivSmall(hours, 24).q
    IN  IF FitsInt(days) /\ LimbsToInt(days, 1, 0) <= MaxDays
        THEN Ok([date |-> CivilFromDays(LimbsToInt(days, 1, 0)),
                 hour |-> DivSmall(hours, 24).r, minute |-> DivSmall(mins, 60).r,
                 second |-> DivSmall(secs, 60).r, milli |-> DivSmall(ts_ms, 1000).r])
        ELSE Err(<<"Timestamp out of range">>)

\* dt.to_rfc3339_opts(SecondsFormat::Millis, use_z)
to_rfc3339_opts(dt, use_z) ==
    LET y == dt.date.year
        year == IF y <= 9999 THEN Pad(y, 4) ELSE <<"+">> \o IntDigits(y)
    IN  year \o <<"-">> \o Pad(dt.date.month, 2) \o <<"-">> \o Pad(dt.date.day, 2)
        \o <<"T">> \o Pad(dt.hour, 2) \o <<":">> \o Pad(dt.minute, 2)
        \o <<":">> \o Pad(dt.second, 2) \o <<".">> \o Pad(dt.milli, 3)
        \o (IF use_z THEN <<"Z">> ELSE <<"+","0","0",":","0","0">>)

---------------------------------------------------------------------------
(* JsonOutput and serde_json::to_string: the fields in declaration order;  *)
(* no character of a field of the input domain needs escaping              *)

JsonOutput(uuid_str, ts_ms, dt) ==
    [uuid          |-> uuid_str,
     timestamp_ms  |-> ts_ms,
     timestamp_sec |-> DivSmall(ts_ms, 1000).q,
     iso8601       |-> to_rfc3339_opts(dt, TRUE),
     rfc3339       |-> to_rfc3339_opts(dt, FALSE)]

serde_to_string(output) ==
    <<"{","\"","u","u","i","d","\"",":","\"">> \o output.uuid
    \o <<"\"",",","\"","t","i","m","e","s","t","a","m","p","_","m","s","\"",":">>
    \o to_string(output.timestamp_ms)
    \o <<",","\"","t","i","m","e","s","t","a","m","p","_","s","e","c","\"",":">>
    \o to_string(output.timestamp_sec)
    \o <<",","\"","i","s","o","8","6","0","1","\"",":","\"">> \o output.iso8601
    \o <<"\"",",","\"","r","f","c","3","3","3","9","\"",":","\"">> \o output.rfc3339
    \o <<"\"","}">>

---------------------------------------------------------------------------
(* format_timestamp *)

\* faulty variant: seconds by a shift of ten bits in place of the division by 1000
format_timestamp_Shift(uuid_str, ts_ms, format) ==
    LET dt == timestamp_millis_opt(ts_ms)
    IN  IF ~dt.ok THEN Err(dt.v)
        ELSE CASE format = "Iso"    -> Ok(to_rfc3339_opts(dt.v, TRUE))
               [] format = "Unix"   -> Ok(to_string(DivSmall(ts_ms, 1024).q))
               [] format = "UnixMs" -> Ok(to_string(ts_ms))
               [] format = "Json"   ->
                    Ok(serde_to_string([JsonOutput(uuid_str, ts_ms, dt.v)
                                           EXCEPT !.timestamp_sec = DivSmall(ts_ms, 1024).q]))

format_timestamp(uuid_str, ts_ms, format) ==
    LET dt == timestamp_millis_opt(ts_ms)
    IN  IF ~dt.ok THEN Err(dt.v)
        ELSE CASE format = "Iso"    -> Ok(to_rfc3339_opts(dt.v, TRUE))
               [] format = "Unix"   -> Ok(to_string(DivSmall(ts_ms, 1000).q))
               [] format = "UnixMs" -> Ok(to_string(ts_ms))
               [] format = "Json"   -> Ok(serde_to_string(JsonOutput(uuid_str, ts_ms, dt.v)))

---------------------------------------------------------------------------
(* process_uuid *)

\* faulty variant: the candidate handed to format_timestamp as given, not trimmed
process_uuid_call_Untrimmed(uuid_str, format) ==
    LET uuid == parse_str(trim(uuid_str))
    IN  IF ~uuid.ok
        THEN [uuid |-> uuid, ts_ms |-> <<>>, ret |-> Err(<<"Invalid UUID: ">> \o uuid.v)]
        ELSE LET ts_ms == extract_timestamp_ms(uuid.v)
             IN  IF ~ts_ms.ok
                 THEN [uuid |-> uuid, ts_ms |-> <<>>, ret |-> Err(ts_ms.v)]
                 ELSE [uuid |-> uuid, ts_ms |-> ts_ms.v,
                       ret |-> format_timestamp(uuid_str, ts_ms.v, format)]

\* the call with its locals: uuid (the parse result), ts_ms and the returned value
process_uuid_call(uuid_str, format) ==
    LET uuid == parse_str(trim(uuid_str))
    IN  IF ~uuid.ok
        THEN [uuid |-> uuid, ts_ms |-> <<>>, ret |-> Err(<<"Invalid UUID: ">> \o uuid.v)]
        ELSE LET ts_ms == extract_timestamp_ms(uuid.v)
             IN  IF ~ts_ms.ok
                 THEN [uuid |-> uuid, ts_ms |-> <<>>, ret |-> Err(ts_ms.v)]
                 ELSE [uuid |-> uuid, ts_ms |-> ts_ms.v,
                       ret |-> format_timestamp(trim(uuid_str), ts_ms.v, format)]

process_uuid(uuid_str, format) == process_uuid_call(uuid_str, format).ret


---------------------------------------------------------------------------
(* OutputFormat::from_cli *)

KwIso == <<"i","s","o">>

KwUnix == <<"u","n","i","x">>

KwUnixMs == <<"u","n","i","x","-","m","s">>

KwJson == <<"j","s","o","n">>

\* faulty variant: the format name compared as given, without to_lowercase
from_cli_CaseSensitive(c) ==
    IF c.unix THEN Ok("Unix")
    ELSE IF c.unix_ms THEN Ok("UnixMs")
    ELSE IF c.json THEN Ok("Json")
    ELSE LET name == c.format
         IN  IF name = KwIso THEN Ok("Iso")
             ELSE IF name = KwUnix THEN Ok("Unix")
             ELSE IF name = KwUnixMs THEN Ok("UnixMs")
             ELSE IF name = KwJson THEN Ok("Json")
             ELSE Err(<<"Unknown format: ">> \o c.format
                      \o <<". Use: iso, unix, unix-ms, json">>)

from_cli(c) ==
    IF c.unix THEN Ok("Unix")
    ELSE IF c.unix_ms THEN Ok("UnixMs")
    ELSE IF c.json THEN Ok("Json")
    ELSE LET name == to_lowercase(c.format)
         IN  IF name = KwIso THEN Ok("Iso")
             ELSE IF name = KwUnix THEN Ok("Unix")
             ELSE IF name = KwUnixMs THEN Ok("UnixMs")
             ELSE IF name = KwJson THEN Ok("Json")
             ELSE Err(<<"Unknown format: ">> \o c.format
                      \o <<". Use: iso, unix, unix-ms, json">>)

---------------------------------------------------------------------------
(* The input domain: command lines and standard inputs                     *)

MaxArgs == 2

MaxLines == 2

T_ex == <<"0","1","7","f","2","2","e","2","-","7","9","b","0","-","7","c","c","3","-","9","8","c","4","-","d","c","0","c","0","c","0","7","3","9","8","f">>

T_ex_ws == <<" ","0","1","7","f","2","2","e","2","-","7","9","b","0","-","7","c","c","3","-","9","8","c","4","-","d","c","0","c","0","c","0","7","3","9","8","f","\t">>

T_simple == <<"0","1","7","F","2","2","E","2","7","9","B","0","4","A","A","A","8","B","B","B","0","0","0","0","0","0","0","0","0","0","0","1">>

T_max == <<"f","f","f","f","f","f","f","f","-","f","f","f","f","-","7","f","f","f","-","b","f","f","f","-","f","f","f","f","f","f","f","f","f","f","f","f">>

T_bad == <<"n","o","t","-","a","-","u","u","i","d">>

T_misgroup == <<"0","1","7","f","2","2","e","2","7","-","9","b","0","-","7","c","c","3","-","9","8","c","4","-","d","c","0","c","0","c","0","7","3","9","8","f">>

T_blank == <<" ","\t">>

\* positional arguments
ArgTexts == {T_ex, T_ex_ws, T_simple, T_max, T_bad}

\* lines of standard input: readable text, or a line whose read fails
Line(text) == [ok |-> TRUE, text |-> text]

BadLine == [ok |-> FALSE, text |-> <<>>]

StdinLines == {Line(T_ex_ws), Line(T_max), Line(T_misgroup), Line(T_blank), Line(<<>>), BadLine}

\* values of --format
FormatNames == {KwIso, KwUnix, KwUnixMs, KwJson, <<"U","n","i","x","-","M","S">>,
                <<"J","S","O","N">>, <<"b","o","g","u","s">>, <<"u","n","i","x","m","s">>}

SeqsUpTo(S, n) == UNION {[1..k -> S] : k \in 0..n}

\* the hyphenated text of a 16-byte value
ByteHex(b) == <<HexLower[(b \div 16) + 1], HexLower[(b % 16) + 1]>>

RECURSIVE BytesHex(_, _, _)
BytesHex(u, lo, hi) == IF lo > hi THEN <<>> ELSE ByteHex(u[lo]) \o BytesHex(u, lo + 1, hi)

Hyphenated(u) ==
    BytesHex(u, 1, 4) \o <<"-">> \o BytesHex(u, 5, 6) \o <<"-">> \o BytesHex(u, 7, 8)
    \o <<"-">> \o BytesHex(u, 9, 10) \o <<"-">> \o BytesHex(u, 11, 16)

\* 16-byte values: each timestamp byte is 0, 255 or the byte of T_ex; the
\* other ten bytes are those of a version-7 or of a version-4 UUID
TsBytes == {<<a, b, c, d, e, f>> : a \in {0, 1, 255}, b \in {0, 127, 255}, c \in {0, 34, 255},
                                   d \in {0, 226, 255}, e \in {0, 121, 255}, f \in {0, 176, 255}}

Tails == {<<124, 195, 152, 196, 220, 12, 12, 7, 57, 143>>,
          <<74, 170, 139, 187, 0, 0, 0, 0, 0, 1>>}

UuidValues == {t \o r : t \in TsBytes, r \in Tails}

---------------------------------------------------------------------------
(* The program: main *)

VARIABLES
    argv,         \* the command line: positional UUIDs, --format (absent: <<>>), -u, -U, -j, -q
    stdin,        \* the lines of standard input
    stdin_read,   \* how many lines of standard input have been read
    pc,           \* where main is
    cli,          \* Cli, once parsed
    format,       \* the OutputFormat, "unset" before and "error" if from_cli failed
    uuid_inputs,  \* the collected candidates
    i,            \* how many candidates the loop has taken
    had_error,
    stdout,       \* lines printed with println!
    stderr,       \* lines printed with eprintln!
    exit_code,    \* -1 while the process runs
    calls,        \* the process_uuid calls made so far, each with its locals
    prev          \* the outcome of the previous run of the same command line

vars == <<argv, stdin, stdin_read, pc, cli, format, uuid_inputs, i, had_error,
          stdout, stderr, exit_code, calls, prev>>

NoCli == [uuids |-> <<>>, format |-> <<>>, unix |-> FALSE, unix_ms |-> FALSE,
          json |-> FALSE, quiet |-> FALSE]

NoPrev == [done |-> FALSE, quiet |-> FALSE, stdout |-> <<>>, stderr |-> <<>>,
           exit_code |-> -1]

\* the process as it starts
Start ==
    /\ stdin_read = 0
    /\ pc = "parse"
    /\ cli = NoCli
    /\ format = "unset"
    /\ uuid_inputs = <<>>
    /\ i = 0
    /\ had_error = FALSE
    /\ stdout = <<>>
    /\ stderr = <<>>
    /\ exit_code = -1
    /\ calls = <<>>

\* batches of a few texts under every combination of the options; standard
\* input is varied when it is consulted (no positional argument), and is
\* empty or one line otherwise
InitBatch ==
    /\ \E uuids \in SeqsUpTo(ArgTexts, MaxArgs), f \in {<<>>} \cup {<<n>> : n \in FormatNames},
          u \in BOOLEAN, um \in BOOLEAN, j \in BOOLEAN, q \in BOOLEAN :
            argv = [uuids |-> uuids, format |-> f, unix |-> u, unix_ms |-> um,
                    json |-> j, quiet |-> q]
    /\ stdin \in SeqsUpTo(StdinLines, MaxLines)
    /\ argv.uuids # <<>> => stdin \in {<<>>, <<Line(T_ex_ws)>>}

\* one UUID of UuidValues under each of the four formats
InitValue ==
    /\ \E u \in UuidValues, n \in {KwIso, KwUnix, KwUnixMs, KwJson} :
            argv = [uuids |-> <<Hyphenated(u)>>, format |-> <<n>>, unix |-> FALSE,
                    unix_ms |-> FALSE, json |-> FALSE, quiet |-> FALSE]
    /\ stdin = <<>>

Init ==
    /\ InitBatch \/ InitValue
    /\ prev = NoPrev
    /\ Start

exit(code) ==
    /\ exit_code' = code
    /\ pc' = "exited"

\* faulty variant: no conflict between the shorthands and --format
Cli_parse_NoConflict ==
    /\ pc = "parse"
    /\ cli' = [uuids |-> argv.uuids,
               format |-> IF argv.format = <<>> THEN KwIso ELSE argv.format[1],
               unix |-> argv.unix, unix_ms |-> argv.unix_ms,
               json |-> argv.json, quiet |-> argv.quiet]
    /\ pc' = "format"
    /\ UNCHANGED <<argv, stdin, stdin_read, format, uuid_inputs, i, had_error,
                   stdout, stderr, exit_code, calls, prev>>

\* Cli::parse (clap): -u, -U and -j each conflict with an explicit --format;
\* a conflict is a usage error, exit status 2; an absent --format takes its
\* default value
Cli_parse ==
    /\ pc = "parse"
    /\ IF argv.format # <<>> /\ (argv.unix \/ argv.unix_ms \/ argv.json)
       THEN /\ stderr' = Append(stderr, <<"error: the argument cannot be used with '--format <FORMAT>'">>)
            /\ exit(2)
            /\ UNCHANGED cli
       ELSE /\ cli' = [uuids |-> argv.uuids,
                       format |-> IF argv.format = <<>> THEN KwIso ELSE argv.format[1],
                       unix |-> argv.unix, unix_ms |-> argv.unix_ms,
                       json |-> argv.json, quiet |-> argv.quiet]
            /\ pc' = "format"
            /\ UNCHANGED <<stderr, exit_code>>
    /\ UNCHANGED <<argv, stdin, stdin_read, format, uuid_inputs, i, had_error,
                   stdout, calls, prev>>

\* faulty variant: the format is resolved after standard input has been read
DetermineFormat_AfterRead ==
    /\ pc = "format"
    /\ LET r == from_cli(cli)
       IN  IF r.ok
           THEN /\ format' = r.v
                /\ pc' = "collect"
                /\ UNCHANGED <<stderr, exit_code, stdin_read>>
           ELSE /\ format' = "error"
                /\ stdin_read' = IF cli.uuids = <<>> THEN Len(stdin) ELSE stdin_read
                /\ stderr' = Append(stderr, <<"Error: ">> \o r.v)
                /\ exit(1)
    /\ UNCHANGED <<argv, stdin, cli, uuid_inputs, i, had_error, stdout, calls, prev>>

\* main: determine the output format
DetermineFormat ==
    /\ pc = "format"
    /\ LET r == from_cli(cli)
       IN  IF r.ok
           THEN /\ format' = r.v
                /\ pc' = "collect"
                /\ UNCHANGED <<stderr, exit_code>>
           ELSE /\ format' = "error"
                /\ stderr' = Append(stderr, <<"Error: ">> \o r.v)
                /\ exit(1)
    /\ UNCHANGED <<argv, stdin, stdin_read, cli, uuid_inputs, i, had_error,
                   stdout, calls, prev>>

\* faulty variant: the kept lines are trimmed
ReadLines_Trimmed(lines) ==
    LET kept == SelectSeq(lines, LAMBDA l : l.ok /\ trim(l.text) # <<>>)
    IN  [k \in 1..Len(kept) |-> trim(kept[k].text)]

\* reader.lines().filter_map(|line| line.ok()).filter(|line| !line.trim().is_empty())
ReadLines(lines) ==
    LET kept == SelectSeq(lines, LAMBDA l : l.ok /\ trim(l.text) # <<>>)
    IN  [k \in 1..Len(kept) |-> kept[k].text]

\* main: collect UUIDs from args or stdin
CollectInputs ==
    /\ pc = "collect"
    /\ IF cli.uuids # <<>>
       THEN /\ uuid_inputs' = cli.uuids
            /\ UNCHANGED stdin_read
       ELSE /\ uuid_inputs' = ReadLines(stdin)
            /\ stdin_read' = Len(stdin)
    /\ pc' = "check"
    /\ UNCHANGED <<argv, stdin, cli, format, i, had_error, stdout, stderr,
                   exit_code, calls, prev>>

\* main: if uuid_inputs.is_empty()
CheckEmpty ==
    /\ pc = "check"
    /\ IF uuid_inputs = <<>>
       THEN /\ stderr' = IF ~cli.quiet
                         THEN Append(stderr, <<"Error: No UUID provided. Use --help for usage information.">>)
                         ELSE stderr
            /\ exit(1)
       ELSE /\ pc' = "loop"
            /\ UNCHANGED <<stderr, exit_code>>
    /\ UNCHANGED <<argv, stdin, stdin_read, cli, format, uuid_inputs, i,
                   had_error, stdout, calls, prev>>

\* faulty variant: the loop ends at the first failure
ProcessNext_StopOnError ==
    /\ pc = "loop"
    /\ i < Len(uuid_inputs)
    /\ \E call \in {process_uuid_call(uuid_inputs[i + 1], format)} :
           /\ calls' = Append(calls, [uuid_str |-> uuid_inputs[i + 1], uuid |-> call.uuid,
                                      ts_ms |-> call.ts_ms, ret |-> call.ret])
           /\ IF call.ret.ok
              THEN /\ stdout' = Append(stdout, call.ret.v)
                   /\ i' = i + 1
                   /\ UNCHANGED <<stderr, had_error>>
              ELSE /\ stderr' = IF ~cli.quiet THEN Append(stderr, <<"Error: ">> \o call.ret.v)
                                ELSE stderr
                   /\ had_error' = TRUE
                   /\ i' = Len(uuid_inputs)
                   /\ UNCHANGED stdout
    /\ UNCHANGED <<argv, stdin, stdin_read, pc, cli, format, uuid_inputs,
                   exit_code, prev>>

\* faulty variant: a failure is counted only when its message is printed
ProcessNext_QuietNotCounted ==
    /\ pc = "loop"
    /\ i < Len(uuid_inputs)
    /\ \E call \in {process_uuid_call(uuid_inputs[i + 1], format)} :
           /\ calls' = Append(calls, [uuid_str |-> uuid_inputs[i + 1], uuid |-> call.uuid,
                                      ts_ms |-> call.ts_ms, ret |-> call.ret])
           /\ IF call.ret.ok
              THEN /\ stdout' = Append(stdout, call.ret.v)
                   /\ UNCHANGED <<stderr, had_error>>
              ELSE /\ IF ~cli.quiet
                      THEN /\ stderr' = Append(stderr, <<"Error: ">> \o call.ret.v)
                           /\ had_error' = TRUE
                      ELSE UNCHANGED <<stderr, had_error>>
                   /\ UNCHANGED stdout
    /\ i' = i + 1
    /\ UNCHANGED <<argv, stdin, stdin_read, pc, cli, format, uuid_inputs,
                   exit_code, prev>>

\* main: one iteration of `for uuid_str in uuid_inputs`
ProcessNext ==
    /\ pc = "loop"
    /\ i < Len(uuid_inputs)
    /\ \E call \in {process_uuid_call(uuid_inputs[i + 1], format)} :
           /\ calls' = Append(calls, [uuid_str |-> uuid_inputs[i + 1], uuid |-> call.uuid,
                                      ts_ms |-> call.ts_ms, ret |-> call.ret])
           /\ IF call.ret.ok
              THEN /\ stdout' = Append(stdout, call.ret.v)
                   /\ UNCHANGED <<stderr, had_error>>
              ELSE /\ stderr' = IF ~cli.quiet THEN Append(stderr, <<"Error: ">> \o call.ret.v)
                                ELSE stderr
                   /\ had_error' = TRUE
                   /\ UNCHANGED stdout
    /\ i' = i + 1
    /\ UNCHANGED <<argv, stdin, stdin_read, pc, cli, format, uuid_inputs,
                   exit_code, prev>>

\* faulty variant: the exit status does not depend on had_error
Finish_AlwaysZero ==
    /\ pc = "loop"
    /\ i = Len(uuid_inputs)
    /\ exit(0)
    /\ UNCHANGED <<argv, stdin, stdin_read, cli, format, uuid_inputs, i,
                   had_error, stdout, stderr, calls, prev>>

\* main: after the loop
Finish ==
    /\ pc = "loop"
    /\ i = Len(uuid_inputs)
    /\ exit(IF had_error THEN 1 ELSE 0)
    /\ UNCHANGED <<argv, stdin, stdin_read, cli, format, uuid_inputs, i,
                   had_error, stdout, stderr, calls, prev>>

\* the same command line and the same standard input run once more with
\* the quiet flag (-q) switched; the first run's outcome is kept in prev
Rerun ==
    /\ pc = "exited"
    /\ ~prev.done
    /\ prev' = [done |-> TRUE, quiet |-> argv.quiet, stdout |-> stdout,
                stderr |-> stderr, exit_code |-> exit_code]
    /\ argv' = [argv EXCEPT !.quiet = ~argv.quiet]
    /\ UNCHANGED stdin
    /\ stdin_read' = 0
    /\ pc' = "parse"
    /\ cli' = NoCli
    /\ format' = "unset"
    /\ uuid_inputs' = <<>>
    /\ i' = 0
    /\ had_error' = FALSE
    /\ stdout' = <<>>
    /\ stderr' = <<>>
    /\ exit_code' = -1
    /\ calls' = <<>>

Next ==
    \/ Cli_parse
    \/ DetermineFormat
    \/ CollectInputs
    \/ CheckEmpty
    \/ ProcessNext
    \/ Finish
    \/ Rerun

Spec == Init /\ [][Next]_vars

---------------------------------------------------------------------------
(* Reference definitions used to state the properties                      *)

\* decimal arithmetic on digit sequences, least significant digit first:
\* d * m + carry
RECURSIVE RefMulAdd(_, _, _, _)
RefMulAdd(d, m, k, carry) ==
    IF k > Len(d)
    THEN IF carry = 0 THEN <<>> ELSE <<carry % 10>> \o RefMulAdd(d, m, k, carry \div 10)
    ELSE <<(d[k] * m + carry) % 10>> \o RefMulAdd(d, m, k + 1, (d[k] * m + carry) \div 10)

\* the value of big-endian bytes (Horner's rule), as decimal digits
RECURSIVE RefValue(_, _, _)
RefValue(bytes, k, acc) ==
    IF k > Len(bytes) THEN acc
    ELSE RefValue(bytes, k + 1, RefMulAdd(acc, 256, 1, bytes[k]))

RefRender(v) ==
    IF v = <<>> THEN <<"0">> ELSE [j \in 1..Len(v) |-> DecDigits[v[Len(v) + 1 - j] + 1]]

\* the decimal text of the unsigned big-endian integer the bytes form
RefDecimal(bytes) == RefRender(RefValue(bytes, 1, <<>>))

\* the decimal text of n / 1000 (truncated), from the decimal text of n >= 0
RefDiv1000(text) == IF Len(text) <= 3 THEN <<"0">> ELSE SubSeq(text, 1, Len(text) - 3)

\* a <= b for decimal texts without leading zeros
RECURSIVE RefLexLeq(_, _, _)
RefLexLeq(a, b, k) ==
    IF k > Len(a) THEN TRUE
    ELSE IF a[k] = b[k] THEN RefLexLeq(a, b, k + 1)
    ELSE \E x, y \in 1..10 : DecDigits[x] = a[k] /\ DecDigits[y] = b[k] /\ x < y

RefDecLeq(a, b) == Len(a) < Len(b) \/ (Len(a) = Len(b) /\ RefLexLeq(a, b, 1))

Dec2Pow48Minus1 == <<"2","8","1","4","7","4","9","7","6","7","1","0","6","5","5">>

\* the text of a JSON line that follows `key`, up to the first character of `stop`
RECURSIVE RefUntil(_, _, _)
RefUntil(line, p, stop) ==
    IF p > Len(line) \/ line[p] \in stop THEN <<>>
    ELSE <<line[p]>> \o RefUntil(line, p + 1, stop)

RefField(line, key, stop) ==
    LET at == {p \in 1..(Len(line) - Len(key) + 1) : SubSeq(line, p, p + Len(key) - 1) = key}
    IN  IF at = {} THEN <<"no such field">>
        ELSE RefUntil(line, (CHOOSE p \in at : \A q \in at : p <= q) + Len(key), stop)

KeyUuid == <<"{","\"","u","u","i","d","\"",":","\"">>

KeyMs == <<"\"","t","i","m","e","s","t","a","m","p","_","m","s","\"",":">>

KeySec == <<"\"","t","i","m","e","s","t","a","m","p","_","s","e","c","\"",":">>

\* equality of two texts up to the case of ASCII letters
RefSameLetter(a, b) ==
    \/ a = b
    \/ \E k \in 1..26 : {a, b} = {UpperCase[k], LowerCase[k]}

RefEqIgnoreCase(a, b) ==
    Len(a) = Len(b) /\ \A k \in 1..Len(a) : RefSameLetter(a[k], b[k])

\* the lines standard input contributes: readable, with a non-whitespace
\* character; each is kept as read, or trimmed
RECURSIVE RefKept(_, _)
RefKept(lines, trimmed) ==
    IF lines = <<>> THEN <<>>
    ELSE (IF Head(lines).ok /\ \E k \in 1..Len(Head(lines).text) : Head(lines).text[k] \notin WhiteSpace
          THEN <<IF trimmed THEN trim(Head(lines).text) ELSE Head(lines).text>>
          ELSE <<>>) \o RefKept(Tail(lines), trimmed)

\* the run got as far as collecting its input
Collected == pc \in {"check", "loop"} \/ (pc = "exited" /\ format \notin {"unset", "error"})

Failed == {k \in 1..Len(calls) : ~calls[k].ret.ok}

RECURSIVE SuccessLines(_)
SuccessLines(cs) ==
    IF cs = <<>> THEN <<>>
    ELSE (IF Head(cs).ret.ok THEN <<Head(cs).ret.v>> ELSE <<>>) \o SuccessLines(Tail(cs))

\* the process_uuid call just made
AfterCall == pc = "loop" /\ calls # <<>>

LastCall == calls[Len(calls)]

ExampleBytes == <<1, 127, 34, 226, 121, 176>>

---------------------------------------------------------------------------
(* C1: a run that reaches input collection exits 0 exactly when there is   *)
(* at least one candidate and every candidate was processed successfully;  *)
(* it exits 1 when there is no candidate or when some candidate failed.    *)
C1_ExitStatus ==
    (pc = "exited" /\ Collected) =>
        /\ exit_code \in {0, 1}
        /\ exit_code = 0 <=> /\ uuid_inputs # <<>>
                             /\ Len(calls) = Len(uuid_inputs)
                             /\ \A k \in 1..Len(calls) : calls[k].ret.ok
        /\ uuid_inputs = <<>> => exit_code = 1
        /\ (argv.uuids = <<>> /\ \A k \in 1..Len(stdin) : trim(stdin[k].text) = <<>>)
               => exit_code = 1
        /\ Failed # {} => exit_code = 1

C1_Witness ==
    /\ pc = "exited"
    /\ exit_code = 0
    /\ Len(uuid_inputs) = 2
    /\ Len(stdout) = 2

(* C2: a failed candidate never stops the batch: the candidates are        *)
(* processed once each in input order, standard output holds exactly the   *)
(* lines of the successful ones, in order, each printed before the next    *)
(* candidate is processed.                                                  *)
C2_BatchContinues ==
    (pc = "loop" \/ (pc = "exited" /\ Collected)) =>
        /\ Len(calls) = i
        /\ i <= Len(uuid_inputs)
        /\ \A k \in 1..i : calls[k].uuid_str = uuid_inputs[k]
        /\ stdout = SuccessLines(calls)
        /\ pc = "exited" => i = Len(uuid_inputs)

C2_Witness ==
    /\ pc = "exited"
    /\ Len(calls) = 2
    /\ ~calls[1].ret.ok
    /\ calls[2].ret.ok
    /\ Len(stdout) = 1

(* C3: extract_timestamp_ms never fails on a 16-byte value; its result is  *)
(* the unsigned big-endian integer of bytes 0..5, within [0, 2^48 - 1],    *)
(* whatever bytes 6..15 are.                                                *)
C3_Extract ==
    (AfterCall /\ LastCall.uuid.ok) =>
        \E u \in {LastCall.uuid.v}, ts \in {LastCall.ts_ms} :
            /\ Len(u) = 16
            /\ extract_timestamp_ms(u).ok
            /\ ts = extract_timestamp_ms(u).v
            /\ Len(ts) = 8 /\ \A k \in 1..8 : ts[k] \in 0..255
            /\ ~IsNeg(ts)
            /\ RefDecimal(ts) = RefDecimal(SubSeq(u, 1, 6))
            /\ RefDecLeq(RefDecimal(ts), Dec2Pow48Minus1)
            /\ \A rest \in Tails \cup {[k \in 1..10 |-> 0], [k \in 1..10 |-> 255]} :
                   extract_timestamp_ms(SubSeq(u, 1, 6) \o rest).v = ts

C3_Witness ==
    /\ AfterCall
    /\ LastCall.uuid.ok
    /\ LastCall.uuid.v[7] \div 16 = 4
    /\ LastCall.ts_ms = <<0, 0, 255, 127, 255, 226, 121, 255>>

(* C4: from_cli resolves the three shorthand switches and the format name  *)
(* with the precedence -u, -U, -j, then the name compared without regard   *)
(* to case with iso, unix, unix-ms, json (the default iso gives Iso); it   *)
(* fails, naming the text, exactly when no shorthand is set and the name   *)
(* is none of the four keywords.                                            *)
C4_Expected(c) ==
    IF c.unix THEN "Unix"
    ELSE IF c.unix_ms THEN "UnixMs"
    ELSE IF c.json THEN "Json"
    ELSE IF RefEqIgnoreCase(c.format, KwIso) THEN "Iso"
    ELSE IF RefEqIgnoreCase(c.format, KwUnix) THEN "Unix"
    ELSE IF RefEqIgnoreCase(c.format, KwUnixMs) THEN "UnixMs"
    ELSE IF RefEqIgnoreCase(c.format, KwJson) THEN "Json"
    ELSE "error"

C4_Agrees(c) ==
    \E r \in {from_cli(c)} :
        /\ r.ok <=> C4_Expected(c) # "error"
        /\ r.ok => r.v = C4_Expected(c)
        /\ ~r.ok => /\ ~(c.unix \/ c.unix_ms \/ c.json)
                    /\ \E p \in 1..Len(r.v) : SubSeq(r.v, p, p + Len(c.format) - 1) = c.format

C4_FromCli ==
    /\ pc = "format" =>
          \A u \in BOOLEAN, um \in BOOLEAN, j \in BOOLEAN, n \in FormatNames :
              C4_Agrees([cli EXCEPT !.unix = u, !.unix_ms = um, !.json = j, !.format = n])
    /\ (pc \notin {"parse", "format"} /\ format # "unset") =>
          /\ format = C4_Expected(cli)
          /\ (argv.format = <<>> /\ ~(cli.unix \/ cli.unix_ms \/ cli.json)) => format = "Iso"

C4_Witness ==
    /\ pc = "collect"
    /\ format = "UnixMs"
    /\ cli.unix_ms /\ cli.json /\ ~cli.unix

(* C5, as amended: each shorthand (-u, -U, -j) is mutually exclusive with  *)
(* an explicit --format: an invocation that gives both is rejected before  *)
(* any UUID is read or processed.                                           *)
C5_FormatConflictRejected ==
    (argv.format # <<>> /\ (argv.unix \/ argv.unix_ms \/ argv.json)) =>
        /\ pc \in {"parse", "exited"}
        /\ pc = "exited" => exit_code \notin {-1, 0}
        /\ calls = <<>>
        /\ uuid_inputs = <<>>
        /\ stdin_read = 0
        /\ stdout = <<>>

C5_Witness ==
    /\ pc = "exited"
    /\ argv.format = <<KwJson>>
    /\ argv.unix
    /\ argv.uuids # <<>>
    /\ exit_code = 2

(* C5, as stated: no run processes UUIDs with two or more of the four     *)
(* selectors (--format, -u, -U, -j) set.                                    *)
C5_SelectorsSet ==
    (IF argv.format # <<>> THEN 1 ELSE 0) + (IF argv.unix THEN 1 ELSE 0)
    + (IF argv.unix_ms THEN 1 ELSE 0) + (IF argv.json THEN 1 ELSE 0)

C5_Original == C5_SelectorsSet >= 2 => calls = <<>>

(* C6: when from_cli fails the process reports the error once and exits    *)
(* with status 1 before consuming any input: nothing is read from standard *)
(* input, no candidate is parsed and nothing is printed on standard        *)
(* output, with or without positional UUIDs.                                *)
C6_InvalidFormatFirst ==
    /\ format = "error" =>
          /\ pc = "exited"
          /\ exit_code = 1
          /\ stdin_read = 0
          /\ uuid_inputs = <<>>
          /\ calls = <<>>
          /\ stdout = <<>>
          /\ stderr = <<<<"Error: ">> \o from_cli(cli).v>>
    /\ (pc \notin {"parse", "format"} /\ exit_code # 2 /\ C4_Expected(cli) = "error")
          => format = "error"

C6_Witness ==
    /\ format = "error"
    /\ argv.uuids # <<>>
    /\ stdin # <<>>
    /\ argv.quiet

(* C7: two runs that differ only in the quiet flag print the same lines on *)
(* standard output and exit with the same status; the per-item and the     *)
(* no-input messages go to the error stream when quiet is off and are      *)
(* suppressed when it is on, and a failure counts either way.               *)
C7_QuietOnlyStderr ==
    /\ (pc = "exited" /\ prev.done) =>
          /\ prev.quiet # argv.quiet
          /\ stdout = prev.stdout
          /\ exit_code = prev.exit_code
    /\ (pc = "exited" /\ Collected) =>
          /\ argv.quiet => stderr = <<>>
          /\ ~argv.quiet =>
                Len(stderr) = Cardinality(Failed) + (IF uuid_inputs = <<>> THEN 1 ELSE 0)
          /\ had_error <=> Failed # {}
          /\ (Failed # {} \/ uuid_inputs = <<>>) => exit_code = 1

C7_Witness ==
    /\ pc = "exited"
    /\ prev.done
    /\ argv.quiet
    /\ Len(prev.stderr) = 1
    /\ stderr = <<>>
    /\ Len(stdout) = 1
    /\ exit_code = 1

(* C8, as amended: for every extracted ms, Unix prints the decimal text of *)
(* ms / 1000 (truncated), UnixMs the decimal text of ms, and Json sets     *)
(* timestamp_ms = ms and timestamp_sec = the same quotient; bytes          *)
(* 01 7f 22 e2 79 b0 give 1645557742000 ms and 1645557742 s.               *)
C8_General ==
    (AfterCall /\ LastCall.ret.ok) =>
        \E ms \in {RefDecimal(LastCall.ts_ms)}, line \in {LastCall.ret.v} :
            /\ format = "Unix" => line = RefDiv1000(ms)
            /\ format = "UnixMs" => line = ms
            /\ format = "Json" => /\ RefField(line, KeyMs, {",", "}"}) = ms
                                  /\ RefField(line, KeySec, {",", "}"}) = RefDiv1000(ms)

C8_Example(ms, sec) ==
    (AfterCall /\ LastCall.ret.ok /\ SubSeq(LastCall.uuid.v, 1, 6) = ExampleBytes) =>
        \E line \in {LastCall.ret.v} :
            /\ format = "Unix" => line = sec
            /\ format = "UnixMs" => line = ms
            /\ format = "Json" => /\ RefField(line, KeyMs, {",", "}"}) = ms
                                  /\ RefField(line, KeySec, {",", "}"}) = sec

C8_UnixFormats ==
    /\ C8_General
    /\ C8_Example(<<"1","6","4","5","5","5","7","7","4","2","0","0","0">>,
                  <<"1","6","4","5","5","5","7","7","4","2">>)

C8_Witness ==
    /\ AfterCall
    /\ LastCall.ret.ok
    /\ format = "Json"
    /\ LastCall.ts_ms = <<0, 0, 255, 255, 255, 255, 255, 255>>

(* C8, as stated: the same, with the example 1645559580000 ms and          *)
(* 1645559580 s for bytes 01 7f 22 e2 79 b0.                               *)
C8_Original ==
    /\ C8_General
    /\ C8_Example(<<"1","6","4","5","5","5","9","5","8","0","0","0","0">>,
                  <<"1","6","4","5","5","5","9","5","8","0">>)

(* C9, as amended: with positional arguments the candidates are exactly    *)
(* the arguments, in order and unmodified, and standard input is never     *)
(* read; otherwise standard input is read to its end and the candidates    *)
(* are its readable lines that are not empty after trimming, in order,     *)
(* each kept as read (not trimmed).                                         *)
C9_Collected(trimmed) ==
    /\ argv.uuids # <<>> => stdin_read = 0
    /\ Collected =>
          IF argv.uuids # <<>>
          THEN uuid_inputs = argv.uuids
          ELSE uuid_inputs = RefKept(stdin, trimmed) /\ stdin_read = Len(stdin)

C9_InputCollector == C9_Collected(FALSE)

C9_Witness ==
    /\ pc = "check"
    /\ argv.uuids = <<>>
    /\ stdin = <<BadLine, Line(T_ex_ws)>>
    /\ uuid_inputs = <<T_ex_ws>>

(* C9, as stated: the same, each kept line being its trimmed text.         *)
C9_Original == C9_Collected(TRUE)

(* C10, as amended: with the Json format the uuid field of the record of a *)
(* successful candidate is the candidate with its leading and trailing     *)
(* whitespace removed.                                                      *)
C10_UuidField(trimmed) ==
    (AfterCall /\ LastCall.ret.ok /\ format = "Json") =>
        RefField(LastCall.ret.v, KeyUuid, {"\""})
            = (IF trimmed THEN trim(LastCall.uuid_str) ELSE LastCall.uuid_str)

C10_JsonUuidTrimmed == C10_UuidField(TRUE)

C10_Witness ==
    /\ AfterCall
    /\ LastCall.ret.ok
    /\ format = "Json"
    /\ LastCall.uuid_str = T_ex_ws
    /\ argv.uuids # <<>>

(* C10, as stated: the uuid field is the candidate exactly as supplied,    *)
(* also when it carries leading or trailing whitespace.                     *)
C10_Original == C10_UuidField(FALSE)

=============================================================================
